---- MODULE Spec2Model ----
(***************************************************************************)
(* imply-hack: the traits Imply / sealed::ImplyInner and their blanket     *)
(* impls (src/src/lib.rs), together with the trait declarations the crate  *)
(* documentation builds on them.  The crate has no runtime behaviour; what *)
(* it fixes is the outcome of type-checking a crate that uses it.  The     *)
(* state machine is therefore a user crate being written item by item and  *)
(* then type-checked as a whole: trait impls are accepted or rejected, and *)
(* generic functions are accepted or rejected with E0277.                  *)
(***************************************************************************)
EXTENDS Integers, FiniteSets

\* ------------------------------------------------------------------ bounds
NumTypes == 2      \* concrete types of the user crate: 1..NumTypes
MaxItems == 4      \* items (impls and generic fns) the user crate holds

\* ------------------------------------------------------------------- types
Types == 1..NumTypes
Foo == 1                    \* `struct Foo;`
ParamT == NumTypes + 1      \* the generic parameter T of `fn run<T, U>`
ParamU == NumTypes + 2      \* the generic parameter U of `fn run<T, U>`
AllTypes == 1..(NumTypes + 2)
NoArg == 0                  \* a trait without a type parameter
SelfVar == 0 - 1            \* `Self` inside a trait declaration
ArgVar == 0 - 2             \* `T` inside a trait declaration

\* type terms: a plain type, <x as ImplyInner<a>>::Is, or (first design of the
\* docs, non-generic Imply) <x as Imply>::Is
Ty(n) == <<"ty", n, 0>>
Proj(x, a) == <<"proj", x, a>>
ProjFirst(x) == <<"proj1", x, 0>>

\* predicates: `self: tr<arg>` and `proj == rhs`
TraitPred(tr, self, arg) ==
    [k |-> "trait", tr |-> tr, self |-> self, arg |-> arg, rhs |-> 0]
ProjEq(proj, rhs) ==
    [k |-> "projeq", tr |-> "Is", self |-> proj, arg |-> 0, rhs |-> rhs]

\* ------------------------------------------------------ trait declarations
\* The where-clauses of each trait, supertraits and associated-type bounds
\* included, written over SelfVar / ArgVar.
\* pub trait Imply<T>: sealed::ImplyInner<T, Is = T> {}
ImplySupers ==
    { TraitPred("ImplyInner", Ty(SelfVar), ArgVar),
      ProjEq(Proj(SelfVar, ArgVar), ArgVar) }

\* the same user trait declared without the associated-type bound
MyTraitSupers_NoBound ==
    { TraitPred("Imply", Ty(SelfVar), ArgVar) }

\* trait MyTrait<T>: Imply<T, Is: Bound> {}
MyTraitSupers ==
    { TraitPred("Imply", Ty(SelfVar), ArgVar),
      TraitPred("Bound", Proj(SelfVar, ArgVar), NoArg) }

\* first design of the docs, over a non-generic `trait Imply { type Is; }`:
\* trait MyTrait<T> where Self: Imply<Is: Bound>, Self: Imply<Is = T> {}
MyTraitFirstWhere ==
    { TraitPred("ImplyFirst", Ty(SelfVar), NoArg),
      TraitPred("Bound", ProjFirst(SelfVar), NoArg),
      ProjEq(ProjFirst(SelfVar), ArgVar) }

\* trait FooUser<T> where Foo: MyTrait<T> { .. }   (the MyTrait of that section,
\* the one with `fn do_the_thing`, is called DoTheThing here)
FooUserWhere ==
    { TraitPred("DoTheThing", Ty(Foo), ArgVar) }

\* the same bound through the supertrait:
\* trait FooUser<T>: Imply<Foo, Is: MyTrait<T>> { .. }
FooUserImplySupers ==
    { TraitPred("Imply", Ty(SelfVar), Foo),
      TraitPred("DoTheThing", Proj(SelfVar, Foo), ArgVar) }

Predicates(tr) ==
    CASE tr = "Imply" -> ImplySupers
      [] tr = "MyTrait" -> MyTraitSupers
      [] tr = "MyTraitFirst" -> MyTraitFirstWhere
      [] tr = "FooUser" -> FooUserWhere
      [] tr = "FooUserImply" -> FooUserImplySupers
      [] OTHER -> {}      \* ImplyInner, ImplyFirst, Bound, DoTheThing

\* associated-type bounds of supertraits are not elaborated (before Rust 1.79)
IsImplied_SelfOnly(p) == p.self[1] = "ty" /\ p.self[2] = SelfVar

\* every where-clause is elaborated (RFC 2089, not implemented)
IsImplied_All(p) == TRUE

\* A where-clause is implied to users of the trait only when it constrains
\* Self or an associated type of Self (supertrait and associated-type bounds);
\* a where-clause on any other type is merely required of them.
IsImplied(p) == p.self[2] = SelfVar
Implied(tr) == { p \in Predicates(tr) : IsImplied(p) }

SubstVar(n, x, a) == IF n = SelfVar THEN x ELSE IF n = ArgVar THEN a ELSE n
SubstTerm(t, x, a) == <<t[1], SubstVar(t[2], x, a), SubstVar(t[3], x, a)>>
Subst(p, x, a) ==
    [k |-> p.k, tr |-> p.tr, self |-> SubstTerm(p.self, x, a),
     arg |-> SubstVar(p.arg, x, a), rhs |-> SubstVar(p.rhs, x, a)]

\* ----------------------------------------------------------- blanket impls
BlanketImpls_InnerOnly == {"ImplyInner"}    \* `impl<T, U> Imply<T> for U {}` missing
BlanketImpls_None == {}                     \* both blanket impls missing

\* impl<T, U> Imply<T> for U {}  and  impl<T, U> ImplyInner<T> for U { .. }
BlanketImpls == {"Imply", "ImplyInner"}
ImplyInnerIs_U(u, t) == u                   \* `type Is = U;`

\* type Is = T;
ImplyInnerIs(u, t) == t

\* ------------------------------------------------------------------- state
VARIABLES
    pc,            \* "edit": the crate is being written; "check": it was compiled
    boundImpls,    \* t such that the crate holds `impl Bound for t {}`
    written,       \* <<x, t>> such that the crate holds `impl MyTrait<t> for x {}`
    implyIs,       \* first design only: `impl Imply for x { type Is = implyIs[x]; }`
    fns,           \* generic functions `fn run<T, U>(..) where self: Trait<T>`
    verdicts,      \* compiler verdict on each written impl (the crate's traits)
    verdictsFirst, \* the same impl under the first design of the docs
    fnVerdicts     \* compiler verdict on each generic function

vars == <<pc, boundImpls, written, implyIs, fns, verdicts, verdictsFirst, fnVerdicts>>

\* ------------------------------------------------------------ trait solver
\* Supertrait elaboration of a set of assumptions (one round, then fixpoint).
ElabStep(S) ==
    S \cup UNION { { Subst(p, q.self[2], q.arg) : p \in Implied(q.tr) } :
                   q \in { r \in S : r.k = "trait" /\ r.self[1] = "ty" } }

RECURSIVE Elaborate(_)
Elaborate(S) == IF ElabStep(S) = S THEN S ELSE Elaborate(ElabStep(S))

\* Projection: an equality assumed in the environment, else the impl.
NormalizeTerm(t, env, is) ==
    IF t[1] = "ty" THEN t
    ELSE IF \E q \in env : q.k = "projeq" /\ q.self = t
         THEN Ty((CHOOSE q \in env : q.k = "projeq" /\ q.self = t).rhs)
    ELSE IF t[1] = "proj" THEN Ty(ImplyInnerIs(t[2], t[3]))
    ELSE IF t[2] \in Types /\ is[t[2]] # 0 THEN Ty(is[t[2]])
    ELSE t

Normalize(p, env, is) ==
    IF p.k = "trait" THEN [p EXCEPT !.self = NormalizeTerm(p.self, env, is)]
    ELSE p

NormalizeAll(S, env, is) == { Normalize(p, env, is) : p \in S }

\* Is there an impl proving the (normalized) predicate p?
HasImpl(p, bi, wr, is) ==
    /\ p.self[1] = "ty"
    /\ CASE p.tr \in BlanketImpls -> TRUE
         [] p.tr = "Bound" -> p.self[2] \in bi
         [] p.tr = "ImplyFirst" -> p.self[2] \in Types /\ is[p.self[2]] # 0
         [] p.tr = "MyTrait" -> <<p.self[2], p.arg>> \in wr
         [] OTHER -> FALSE

\* p holds in environment env (already normalized) of a crate (bi, wr, is).
Holds(p, env, bi, wr, is) ==
    IF p.k = "projeq" THEN NormalizeTerm(p.self, env, is) = Ty(p.rhs)
    ELSE p \in env \/ HasImpl(p, bi, wr, is)

\* Type-check `impl tr<t> for x {}`: every where-clause of tr must hold.
CheckImpl(tr, x, t, bi, wr, is) ==
    LET obl == NormalizeAll({ Subst(p, x, t) : p \in Predicates(tr) }, {}, is)
        failed == { p \in obl : ~Holds(p, {}, bi, wr, is) }
    IN  [impl |-> <<x, t>>, obl |-> obl, failed |-> failed, ok |-> failed = {}]

\* The traits a generic function of each family can assume, and the bound its
\* body relies on.
Forms(fam) == IF fam = "MyTrait" THEN {"MyTrait", "MyTraitFirst"}
              ELSE {"FooUser", "FooUserImply"}
Goal(fam) == IF fam = "MyTrait" THEN TraitPred("Bound", Ty(ParamT), NoArg)
             ELSE TraitPred("DoTheThing", Ty(Foo), ParamT)

\* Type-check `fn run<T, U>(..) where self: form<T> { body using Goal }`: the
\* where-clause must be well-formed and the body's bound must be provable,
\* from the elaborated where-clause alone.
CheckFn(f, form, bi, wr, is) ==
    LET assume == TraitPred(form, Ty(f.self), ParamT)
        elab == Elaborate({assume})
        env == NormalizeAll(elab, elab, is)
        wf == NormalizeAll({ Subst(p, f.self, ParamT) : p \in Predicates(form) }, elab, is)
        need == wf \cup {Goal(f.fam)}
        failed == { p \in need : ~Holds(p, env, bi, wr, is) }
    IN  [fn |-> f, form |-> form, env |-> env, failed |-> failed,
         error |-> IF failed = {} THEN "none" ELSE "E0277"]

\* --------------------------------------------------------------- the crate
NoImply == [x \in Types |-> 0]
\* `where Foo: Trait<T>` or `where U: Trait<T>`
FnItems == [fam : {"MyTrait", "FooUser"}, self : {Foo, ParamU}]

ItemCount ==
    Cardinality(boundImpls) + Cardinality(written) + Cardinality(fns)
      + Cardinality({ x \in Types : implyIs[x] # 0 })

Init ==
    /\ pc = "edit"
    /\ boundImpls = {}
    /\ written = {}
    /\ implyIs = NoImply
    /\ fns = {}
    /\ verdicts = {}
    /\ verdictsFirst = {}
    /\ fnVerdicts = {}

\* the user writes `impl Bound for t {}`
WriteBoundImpl(t) ==
    /\ pc = "edit" /\ ItemCount < MaxItems
    /\ t \notin boundImpls
    /\ boundImpls' = boundImpls \cup {t}
    /\ UNCHANGED <<pc, written, implyIs, fns, verdicts, verdictsFirst, fnVerdicts>>

\* the user writes `impl MyTrait<t> for x {}`
WriteMyTraitImpl(x, t) ==
    /\ pc = "edit" /\ ItemCount < MaxItems
    /\ <<x, t>> \notin written
    /\ written' = written \cup {<<x, t>>}
    /\ UNCHANGED <<pc, boundImpls, implyIs, fns, verdicts, verdictsFirst, fnVerdicts>>

\* first design: the user writes `impl Imply for x { type Is = t; }` (one per x)
WriteImplyImpl(x, t) ==
    /\ pc = "edit" /\ ItemCount < MaxItems
    /\ implyIs[x] = 0
    /\ implyIs' = [implyIs EXCEPT ![x] = t]
    /\ UNCHANGED <<pc, boundImpls, written, fns, verdicts, verdictsFirst, fnVerdicts>>

\* the user writes a generic function
WriteFn(f) ==
    /\ pc = "edit" /\ ItemCount < MaxItems
    /\ f \notin fns
    /\ fns' = fns \cup {f}
    /\ UNCHANGED <<pc, boundImpls, written, implyIs, verdicts, verdictsFirst, fnVerdicts>>

\* the compiler type-checks the whole crate
Compile ==
    /\ pc = "edit"
    /\ pc' = "check"
    /\ verdicts' = { CheckImpl("MyTrait", i[1], i[2], boundImpls, written, implyIs) :
                     i \in written }
    /\ verdictsFirst' = { CheckImpl("MyTraitFirst", i[1], i[2], boundImpls, written, implyIs) :
                          i \in written }
    /\ fnVerdicts' = UNION { { CheckFn(f, form, boundImpls, written, implyIs) :
                               form \in Forms(f.fam) } : f \in fns }
    /\ UNCHANGED <<boundImpls, written, implyIs, fns>>

Next ==
    \/ \E t \in Types : WriteBoundImpl(t)
    \/ \E x \in Types, t \in Types : WriteMyTraitImpl(x, t)
    \/ \E x \in Types, t \in Types : WriteImplyImpl(x, t)
    \/ \E f \in FnItems : WriteFn(f)
    \/ Compile

Spec == Init /\ [][Next]_vars

\* ------------------------------------------------------------------ claims
BoundOf(t) == TraitPred("Bound", Ty(t), NoArg)
Verdict(vs, i) == CHOOSE v \in vs : v.impl = i
DerivedBounds(v) == { p \in v.env : p.k = "trait" /\ p.tr = "Bound" }

\* C1: a generic function whose only where-clause is `X: MyTrait<T>`, for a
\* concrete or generic X and a generic T, has `T: Bound` in the environment
\* elaborated from that where-clause and is accepted without restating it.
C1_BoundPropagated ==
    \A v \in fnVerdicts :
        v.form = "MyTrait" => BoundOf(ParamT) \in v.env /\ v.error = "none"

C1_Witness ==
    \E v \in fnVerdicts, w \in fnVerdicts :
        /\ v.form = "MyTrait" /\ v.fn.self = ParamU /\ v.error = "none"
        /\ w.form = "MyTrait" /\ w.fn.self = Foo /\ w.error = "none"

\* C2: <U as ImplyInner<T>>::Is is T for every pair of types, so the only
\* Bound obligation an `impl MyTrait<t> for x` is checked against is `t: Bound`.
C2_ProjectionIsT ==
    /\ \A u \in AllTypes, t \in AllTypes :
          NormalizeTerm(Proj(u, t), {}, implyIs) = Ty(t)
    /\ \A v \in verdicts :
          { p \in v.obl : p.tr = "Bound" } = { BoundOf(v.impl[2]) }

C2_Witness ==
    \E v \in verdicts : v.impl[1] # v.impl[2] /\ BoundOf(v.impl[2]) \in v.obl

C5_WhereClauseNotPropagated ==
    \A v \in fnVerdicts :
        /\ v.form = "FooUser" =>
              /\ v.error = "E0277"
              /\ Goal("FooUser") \notin v.env
              /\ Goal("FooUser") \in v.failed
        /\ v.form = "FooUserImply" => v.error = "none" /\ Goal("FooUser") \in v.env

C5_Witness ==
    \E v \in fnVerdicts, w \in fnVerdicts :
        /\ v.fn = w.fn /\ v.fn.self = ParamU
        /\ v.form = "FooUser" /\ v.error = "E0277"
        /\ w.form = "FooUserImply" /\ w.error = "none"

====
